---- MODULE Spec2Model ----
(***************************************************************************)
(* Regulatory analysis pipeline (backend/regulatory_analyzer).             *)
(*                                                                         *)
(* Part I : AnalysisOrchestrator.run_analysis as a state machine over the  *)
(*          Report / RegulatoryChange tables, the SQLAlchemy session of a  *)
(*          run and the Socket.io notifications it emits.                  *)
(* Part II: DataAcquirer.acquire_data, the three priority tiers and the    *)
(*          concurrent per-query fetches of a tier.                        *)
(* Part III: QueryGenerator.generate_queries.                              *)
(* Part IV: ContentFilter.filter_content, stage by stage.                  *)
(* Part V : AIAnalyst.analyze_changes, batch by batch.                     *)
(* Part VI: the data path of one run: the four stages of Parts II-V fed    *)
(*          with each other's results, as the try body of run_analysis     *)
(*          calls them.                                                    *)
(*                                                                         *)
(* Fault model of Part I.  Every call that leaves the orchestrator may     *)
(* raise: each of the four stages, every statement of the try body that    *)
(* writes through the session (the record construction of the save loop    *)
(* and the three commits), and each of the three emit_* notifications.     *)
(* The commit of the except handler is the recovery step and is taken to   *)
(* succeed in Spec.                                                        *)
(* SpecConc lets the runs of two reports interleave; SpecFault adds the    *)
(* faults of the recovery path: the handler's commit raising and the       *)
(* cancellation of the run while a stage is awaited.                       *)
(***************************************************************************)
EXTENDS Integers, Sequences, FiniteSets, TLC

\* ---------------------------------------------------------------- bounds
MaxReports == 2
MaxChanges == 2

ReportIds == 1..MaxReports

\* ------------------------------------------------------------- constants
StageNames == <<"query_generation", "data_acquisition", "content_filtering", "ai_analysis">>

\* StagePct with the checkpoints of data acquisition and content filtering exchanged
StagePct_swapped(i) == CASE i = 1 -> 10 [] i = 2 -> 60 [] i = 3 -> 30 [] OTHER -> 80

\* progress_percentage passed to _update_progress before stage i
StagePct(i) == CASE i = 1 -> 10 [] i = 2 -> 30 [] i = 3 -> 60 [] OTHER -> 80

NumStages == 4

VARIABLES
    \* ---- database (committed state) ----
    reportStatus,      \* Report.status per id; "none" when the row does not exist
    completedAt,       \* Report.completed_at is set, per id
    changeRows,        \* committed RegulatoryChange rows per report id: indices into the run's output
    profileExists,     \* the CompanyProfile row exists
    \* ---- one run_analysis invocation per report (its background task) ----
    pc,                \* position of the run
    report,            \* the session's Report object: "None" or its in-memory status
    stampMem,          \* in-memory report.completed_at is set
    sessNew,           \* RegulatoryChange objects added to the session and not yet flushed
    stage,             \* index of the current stage
    regulatory_changes,\* len(regulatory_changes) returned by the AI analyst
    e,                 \* exception caught by "except Exception as e"
    raised,            \* exception that left run_analysis ("none": returned normally)
    faults,            \* kinds of step that raised during the run
    log,               \* what the run did, in order: stage calls, emitted events, the save
    \* ---- DataAcquirer.acquire_data (Part II) ----
    queries,           \* the argument: a list of [priority, type]
    acqTier,           \* the tier acquire_data is at: "high", "medium", "low", then "returned"
    fetch,             \* per query, its _acquire_data_for_query task: pending, running, ok, raise
    attempts,          \* per query, how many times its _acquire_data_for_query coroutine was started
    all_data,          \* the list acquire_data builds and returns
    \* ---- QueryGenerator.generate_queries (Part III) ----
    genArgs,           \* the arguments of the call: profile fields, analysis_type, scope, keywords
    genPc,             \* "idle", "called", "returned"
    genQueries,        \* the list generate_queries returns
    \* ---- ContentFilter.filter_content (Part IV) ----
    raw_data,          \* the dicts of the argument list, by position; the stages update them in place
    fltType,           \* the analysis_type argument
    fltPc,             \* "idle", "called", "quality", "relevance", "ranked", "returned", "raised"
    fltList,           \* the list the last stage returned: positions of raw_data, in order
    \* ---- AIAnalyst.analyze_changes (Part V) ----
    aiModel,           \* self.model is set (the API key is configured and the client was built)
    filtered_data,     \* the argument: a list of [url, source_type]
    aiPos,             \* the loop variable i of analyze_changes
    aiCalls,           \* number of calls of self.model.generate_content so far
    aiFailed,          \* the values of i whose call raised
    aiChanges,         \* the list regulatory_changes built so far
    aiPc,              \* "idle", "loop", "returned", "raised"
    \* ---- the data path of one run_analysis (Part VI) ----
    pipeStage,         \* "idle", the name of the stage the run is in, or "completed"
    pipeStatus,        \* Report.status of the run's report
    pipeRows           \* the RegulatoryChange rows saved for the report

dbVars  == <<reportStatus, completedAt, changeRows, profileExists>>
runVars == <<pc, report, stampMem, sessNew, stage, regulatory_changes, e, raised, faults, log>>
acqVars == <<queries, acqTier, fetch, attempts, all_data>>
genVars == <<genArgs, genPc, genQueries>>
fltVars == <<raw_data, fltType, fltPc, fltList>>
aiVars == <<aiModel, filtered_data, aiPos, aiCalls, aiFailed, aiChanges, aiPc>>
pipeVars == <<pipeStage, pipeStatus, pipeRows>>
stageVars == <<acqVars, genVars, fltVars, aiVars, pipeVars>>
outsideAcq == <<dbVars, runVars, genVars, fltVars, aiVars, pipeVars>>
outsideGen == <<dbVars, runVars, acqVars, fltVars, aiVars, pipeVars>>
outsideFlt == <<dbVars, runVars, acqVars, genVars, aiVars, pipeVars>>
outsideAi  == <<dbVars, runVars, acqVars, genVars, fltVars, pipeVars>>
vars    == <<reportStatus, completedAt, changeRows, profileExists,
             pc, report, stampMem, sessNew, stage, regulatory_changes, e, raised, faults, log,
             queries, acqTier, fetch, attempts, all_data,
             genArgs, genPc, genQueries,
             raw_data, fltType, fltPc, fltList,
             aiModel, filtered_data, aiPos, aiCalls, aiFailed, aiChanges, aiPc,
             pipeStage, pipeStatus, pipeRows>>

NoExc == "none"

\* ------------------------------------------------------------------ Init
OrchInit ==
    /\ reportStatus = [r \in ReportIds |-> "none"]
    /\ completedAt = [r \in ReportIds |-> FALSE]
    /\ changeRows = [r \in ReportIds |-> {}]
    /\ profileExists = TRUE
    /\ pc = [r \in ReportIds |-> "new"]
    /\ report = [r \in ReportIds |-> "None"]
    /\ stampMem = [r \in ReportIds |-> FALSE]
    /\ sessNew = [r \in ReportIds |-> {}]
    /\ stage = [r \in ReportIds |-> 0]
    /\ regulatory_changes = [r \in ReportIds |-> 0]
    /\ e = [r \in ReportIds |-> NoExc]
    /\ raised = [r \in ReportIds |-> NoExc]
    /\ faults = [r \in ReportIds |-> {}]
    /\ log = [r \in ReportIds |-> <<>>]

\* Runs are taken one at a time and in the order they were queued: no run of
\* another report is between its first statement and its return.  A run reads and writes only its own session and
\* the rows of its own report, and the requests below touch no row of a
\* running report, so they are taken between runs as well.
Exclusive(r) ==
    /\ \A o \in ReportIds : o < r => pc[o] = "returned"
    /\ \A o \in ReportIds : o > r => pc[o] \in {"new", "queued"}

Quiescent == \A o \in ReportIds : pc[o] \in {"new", "queued", "returned"}

\* ------------------------------------------------- callers of the pipeline
\* POST /reports/analyze: the profile must exist; a Report row with status
\* "pending" is committed and run_analysis is queued as a background task.
\* Report ids come from the table's autoincrement key, so they are handed out in order.
start_analysis(r) ==
    /\ pc[r] = "new"
    /\ Quiescent
    /\ \A o \in ReportIds : o < r => pc[o] # "new"
    /\ profileExists
    /\ reportStatus' = [reportStatus EXCEPT ![r] = "pending"]
    /\ pc' = [pc EXCEPT ![r] = "queued"]
    /\ UNCHANGED <<completedAt, changeRows, profileExists>>
    /\ UNCHANGED <<report, stampMem, sessNew, stage, regulatory_changes, e, raised, faults, log>>
    /\ UNCHANGED stageVars

\* DELETE /reports/{id}, between the request that queued the run and the
\* start of the run (a deletion during the run shows as a failing commit).
delete_report(r) ==
    /\ pc[r] = "queued"
    /\ Quiescent
    /\ reportStatus[r] # "none"
    /\ reportStatus' = [reportStatus EXCEPT ![r] = "none"]
    /\ UNCHANGED <<completedAt, changeRows, profileExists>>
    /\ UNCHANGED runVars
    /\ UNCHANGED stageVars

\* DELETE /management/company-profiles/{id}
delete_company_profile ==
    /\ profileExists
    /\ Quiescent
    /\ profileExists' = FALSE
    /\ UNCHANGED <<reportStatus, completedAt, changeRows>>
    /\ UNCHANGED runVars
    /\ UNCHANGED stageVars

\* ------------------------------------------------------------ the session
\* SessionCommit on one session shared by every run: a commit flushes what
\* any run under way has set on its Report object or added
SessionCommit_shared(r) ==
    /\ reportStatus' = [o \in ReportIds |-> IF report[o] # "None" /\ pc[o] \notin {"new", "queued", "returned"}
                                             THEN report[o] ELSE reportStatus[o]]
    /\ completedAt' = [o \in ReportIds |-> IF o = r THEN stampMem[o] ELSE completedAt[o] \/ stampMem[o]]
    /\ changeRows' = [o \in ReportIds |-> changeRows[o] \cup sessNew[o]]
    /\ sessNew' = [sessNew EXCEPT ![r] = {}]
    /\ UNCHANGED profileExists

\* SessionLocal = sessionmaker(autocommit=False, autoflush=False): commit()
\* flushes every pending object and every dirty attribute of the session in
\* one transaction.
SessionCommit(r) ==
    /\ reportStatus' = [reportStatus EXCEPT ![r] = report[r]]
    /\ completedAt' = [completedAt EXCEPT ![r] = stampMem[r]]
    /\ changeRows' = [changeRows EXCEPT ![r] = @ \cup sessNew[r]]
    /\ sessNew' = [sessNew EXCEPT ![r] = {}]
    /\ UNCHANGED profileExists

\* commit() raised: the transaction is rolled back, pending objects are
\* expunged and the attributes of the Report object are expired, so they read
\* as the committed row again.
SessionRollback(r) ==
    /\ report' = [report EXCEPT ![r] = reportStatus[r]]
    /\ stampMem' = [stampMem EXCEPT ![r] = completedAt[r]]
    /\ sessNew' = [sessNew EXCEPT ![r] = {}]
    /\ UNCHANGED dbVars

\* a step of the try body raised exception x of kind k: control goes to the handler
Raise(r, x, k) ==
    /\ e' = [e EXCEPT ![r] = x]
    /\ faults' = [faults EXCEPT ![r] = @ \cup {k}]
    /\ pc' = [pc EXCEPT ![r] = "except"]

\* ------------------------------------------------------- run_analysis(r)
\* lines 41-53: open the session, load the Report and the CompanyProfile,
\* raise ValueError when either is missing, else set report.status in memory
Lookup(r) ==
    /\ pc[r] = "queued"
    /\ IF reportStatus[r] = "none" \/ ~profileExists
       THEN /\ report' = [report EXCEPT ![r] = IF reportStatus[r] = "none" THEN "None" ELSE reportStatus[r]]
            /\ Raise(r, "not_found", "not_found")
       ELSE /\ report' = [report EXCEPT ![r] = "in_progress"]
            /\ pc' = [pc EXCEPT ![r] = "commit_start"]
            /\ UNCHANGED <<e, faults>>
    /\ UNCHANGED dbVars
    /\ UNCHANGED <<stampMem, sessNew, stage, regulatory_changes, raised, log>>
    /\ UNCHANGED stageVars

\* line 54: db.commit()
CommitStart(r) ==
    /\ pc[r] = "commit_start"
    /\ \/ /\ SessionCommit(r)
          /\ pc' = [pc EXCEPT ![r] = "progress"]
          /\ stage' = [stage EXCEPT ![r] = 1]
          /\ UNCHANGED <<report, stampMem, e, faults>>
       \/ /\ SessionRollback(r)
          /\ Raise(r, "commit", "commit")
          /\ UNCHANGED stage
    /\ UNCHANGED <<regulatory_changes, raised, log>>
    /\ UNCHANGED stageVars

\* _update_progress (lines 121-144): emit_analysis_progress inside try/except;
\* an emit that raises is logged and swallowed
UpdateProgress(r, pct, name) ==
    \/ /\ log' = [log EXCEPT ![r] = Append(@, <<"progress", pct, name>>)]
       /\ UNCHANGED faults
    \/ /\ faults' = [faults EXCEPT ![r] = @ \cup {"emit_progress"}]
       /\ UNCHANGED log

\* lines 57, 66, 70, 76: the progress event before stage[r]
ProgressStage(r) ==
    /\ pc[r] = "progress"
    /\ UpdateProgress(r, StagePct(stage[r]), StageNames[stage[r]])
    /\ pc' = [pc EXCEPT ![r] = "stage"]
    /\ UNCHANGED dbVars
    /\ UNCHANGED <<report, stampMem, sessNew, stage, regulatory_changes, e, raised>>
    /\ UNCHANGED stageVars

\* lines 58-63, 67, 71-73, 77-79: await the stage; it returns or raises
RunStage(r) ==
    /\ pc[r] = "stage"
    /\ log' = [log EXCEPT ![r] = Append(@, <<"call", stage[r], StageNames[stage[r]]>>)]
    /\ \/ /\ stage[r] < NumStages
          /\ stage' = [stage EXCEPT ![r] = @ + 1]
          /\ pc' = [pc EXCEPT ![r] = "progress"]
          /\ UNCHANGED <<regulatory_changes, e, faults>>
       \/ /\ stage[r] = NumStages
          /\ \E n \in 0..MaxChanges : regulatory_changes' = [regulatory_changes EXCEPT ![r] = n]
          /\ pc' = [pc EXCEPT ![r] = "save"]
          /\ UNCHANGED <<stage, e, faults>>
       \/ /\ Raise(r, StageNames[stage[r]], "stage")
          /\ UNCHANGED <<stage, regulatory_changes>>
    /\ UNCHANGED dbVars
    /\ UNCHANGED <<report, stampMem, sessNew, raised>>
    /\ UNCHANGED stageVars

\* _save_regulatory_changes, lines 153-168: one iteration of the loop builds
\* the next RegulatoryChange and adds it to the session
SaveAdd(r) ==
    /\ pc[r] = "save"
    /\ Cardinality(sessNew[r]) < regulatory_changes[r]
    /\ \/ /\ sessNew' = [sessNew EXCEPT ![r] = @ \cup {Cardinality(@) + 1}]
          /\ UNCHANGED <<pc, e, faults>>
       \/ /\ Raise(r, "save", "save")
          /\ UNCHANGED sessNew
    /\ UNCHANGED dbVars
    /\ UNCHANGED <<report, stampMem, stage, regulatory_changes, raised, log>>
    /\ UNCHANGED stageVars

\* _save_regulatory_changes, line 170: db.commit() after the loop
SaveCommit(r) ==
    /\ pc[r] = "save"
    /\ Cardinality(sessNew[r]) = regulatory_changes[r]
    /\ \/ /\ SessionCommit(r)
          /\ log' = [log EXCEPT ![r] = Append(@, <<"saved", regulatory_changes[r], "">>)]
          /\ pc' = [pc EXCEPT ![r] = "progress_completed"]
          /\ UNCHANGED <<report, stampMem, e, faults>>
       \/ /\ SessionRollback(r)
          /\ Raise(r, "commit", "commit")
          /\ UNCHANGED log
    /\ UNCHANGED <<stage, regulatory_changes, raised>>
    /\ UNCHANGED stageVars

\* line 85
ProgressCompleted(r) ==
    /\ pc[r] = "progress_completed"
    /\ UpdateProgress(r, 100, "completed")
    /\ pc' = [pc EXCEPT ![r] = "complete"]
    /\ UNCHANGED dbVars
    /\ UNCHANGED <<report, stampMem, sessNew, stage, regulatory_changes, e, raised>>
    /\ UNCHANGED stageVars

\* lines 86-88: report.status = "completed"; completed_at = utcnow(); db.commit()
CommitCompleted(r) ==
    /\ pc[r] = "complete"
    /\ \/ /\ reportStatus' = [reportStatus EXCEPT ![r] = "completed"]
          /\ completedAt' = [completedAt EXCEPT ![r] = TRUE]
          /\ changeRows' = [changeRows EXCEPT ![r] = @ \cup sessNew[r]]
          /\ sessNew' = [sessNew EXCEPT ![r] = {}]
          /\ report' = [report EXCEPT ![r] = "completed"]
          /\ stampMem' = [stampMem EXCEPT ![r] = TRUE]
          /\ pc' = [pc EXCEPT ![r] = "emit_complete"]
          /\ UNCHANGED <<profileExists, e, faults>>
       \/ /\ SessionRollback(r)
          /\ Raise(r, "commit", "commit")
    /\ UNCHANGED <<stage, regulatory_changes, raised, log>>
    /\ UNCHANGED stageVars

\* CompletionData counting the objects still pending in the session (none
\* after the save's commit) instead of the list the analyst returned
CompletionData_pending(r) == <<"complete", Cardinality(sessNew[r]), "completed">>

\* lines 91-97: completion_data, with regulatory_changes_count = len(regulatory_changes)
CompletionData(r) == <<"complete", regulatory_changes[r], "completed">>

\* line 98: emit_analysis_complete; the call is not guarded, so a raise reaches the handler
EmitComplete(r) ==
    /\ pc[r] = "emit_complete"
    /\ \/ /\ log' = [log EXCEPT ![r] = Append(@, CompletionData(r))]
          /\ pc' = [pc EXCEPT ![r] = "finally"]
          /\ UNCHANGED <<e, faults>>
       \/ /\ Raise(r, "emit_complete", "emit_complete")
          /\ UNCHANGED log
    /\ UNCHANGED dbVars
    /\ UNCHANGED <<report, stampMem, sessNew, stage, regulatory_changes, raised>>
    /\ UNCHANGED stageVars

\* lines 100-103: except Exception as e: report.status = "failed".
\* With report None the assignment raises AttributeError out of the handler.
HandlerSetFailed(r) ==
    /\ pc[r] = "except"
    /\ IF report[r] = "None"
       THEN /\ raised' = [raised EXCEPT ![r] = "AttributeError"]
            /\ pc' = [pc EXCEPT ![r] = "finally"]
            /\ UNCHANGED report
       ELSE /\ report' = [report EXCEPT ![r] = "failed"]
            /\ pc' = [pc EXCEPT ![r] = "except_commit"]
            /\ UNCHANGED raised
    /\ UNCHANGED dbVars
    /\ UNCHANGED <<stampMem, sessNew, stage, regulatory_changes, e, faults, log>>
    /\ UNCHANGED stageVars

\* HandlerCommit calling db.rollback() in place of db.commit(): the failed
\* status set in memory is dropped together with the pending objects
HandlerCommit_rollback(r) ==
    /\ pc[r] = "except_commit"
    /\ SessionRollback(r)
    /\ pc' = [pc EXCEPT ![r] = "except_progress"]
    /\ UNCHANGED <<stage, regulatory_changes, e, raised, faults, log>>
    /\ UNCHANGED stageVars

\* line 104: db.commit() in the handler, on the session of the try body
\* (no rollback precedes it)
HandlerCommit(r) ==
    /\ pc[r] = "except_commit"
    /\ SessionCommit(r)
    /\ pc' = [pc EXCEPT ![r] = "except_progress"]
    /\ UNCHANGED <<report, stampMem, stage, regulatory_changes, e, raised, faults, log>>
    /\ UNCHANGED stageVars

\* lines 105-107: _update_progress(db, report_id, 0, "failed", ...)
HandlerProgress(r) ==
    /\ pc[r] = "except_progress"
    /\ UpdateProgress(r, 0, "failed")
    /\ pc' = [pc EXCEPT ![r] = "except_emit"]
    /\ UNCHANGED dbVars
    /\ UNCHANGED <<report, stampMem, sessNew, stage, regulatory_changes, e, raised>>
    /\ UNCHANGED stageVars

\* lines 110-117: emit_analysis_error (not guarded), then raise e
EmitError(r) ==
    /\ pc[r] = "except_emit"
    /\ \/ /\ log' = [log EXCEPT ![r] = Append(@, <<"error", 0, e[r]>>)]
          /\ raised' = [raised EXCEPT ![r] = e[r]]
          /\ UNCHANGED faults
       \/ /\ raised' = [raised EXCEPT ![r] = "emit_error"]
          /\ faults' = [faults EXCEPT ![r] = @ \cup {"emit_error"}]
          /\ UNCHANGED log
    /\ pc' = [pc EXCEPT ![r] = "finally"]
    /\ UNCHANGED dbVars
    /\ UNCHANGED <<report, stampMem, sessNew, stage, regulatory_changes, e>>
    /\ UNCHANGED stageVars

\* lines 118-119: finally: db.close() discards what the session still holds
Finally(r) ==
    /\ pc[r] = "finally"
    /\ sessNew' = [sessNew EXCEPT ![r] = {}]
    /\ pc' = [pc EXCEPT ![r] = "done"]
    /\ UNCHANGED dbVars
    /\ UNCHANGED <<report, stampMem, stage, regulatory_changes, e, raised, faults, log>>
    /\ UNCHANGED stageVars

\* the caller gets the result or the exception and does not call again
\* (run_analysis_task re-raises, there is no self.retry); the frame of the run is gone
Return(r) ==
    /\ pc[r] = "done"
    /\ pc' = [pc EXCEPT ![r] = "returned"]
    /\ report' = [report EXCEPT ![r] = "None"]
    /\ stampMem' = [stampMem EXCEPT ![r] = FALSE]
    /\ stage' = [stage EXCEPT ![r] = 0]
    /\ regulatory_changes' = [regulatory_changes EXCEPT ![r] = 0]
    /\ e' = [e EXCEPT ![r] = NoExc]
    /\ raised' = [raised EXCEPT ![r] = NoExc]
    /\ faults' = [faults EXCEPT ![r] = {}]
    /\ log' = [log EXCEPT ![r] = <<>>]
    /\ UNCHANGED dbVars
    /\ UNCHANGED sessNew
    /\ UNCHANGED stageVars

\* a single worker takes the queued runs one after the other, in the order
\* of their requests
RunInTurn(r) ==
    /\ Exclusive(r)
    /\ Lookup(r)

\* ----------------------------------------------- the parts when not running
\* no call of generate_queries is under way
GenIdle ==
    /\ genArgs = <<>>
    /\ genPc = "idle"
    /\ genQueries = <<>>

\* no call of filter_content is under way
FltIdle ==
    /\ raw_data = <<>>
    /\ fltType = ""
    /\ fltPc = "idle"
    /\ fltList = <<>>

\* no call of analyze_changes is under way
AiIdle ==
    /\ aiModel = FALSE
    /\ filtered_data = <<>>
    /\ aiPos = 0
    /\ aiCalls = 0
    /\ aiFailed = {}
    /\ aiChanges = <<>>
    /\ aiPc = "idle"

\* no run is followed through its stages
PipeIdle ==
    /\ pipeStage = "idle"
    /\ pipeStatus = "none"
    /\ pipeRows = <<>>

\* ======================================================================
\* Part II: DataAcquirer.acquire_data
\* ======================================================================
MaxQueries == 3

\* q.get("priority"): the three tiers, or anything else ("none")
Priorities == {"high", "medium", "low", "none"}
\* q.get("type") values drawn for the input: one type that searches three
\* sources and one that searches a single source
InputTypes == {"keyword_search", "industry_search"}

NumGovernmentSites == 4
NumRegulatoryBodies == 13
NumNewsSources == 4

\* the items of one mock source for query i: one per site / body / news source
SourceItems(i, src, n) == [k \in 1..n |-> <<i, src, k>>]

\* lines 84-92: the sources searched for query i depend on its type t alone;
\* a type none of the branches names searches nothing
SearchByType(i, t) ==
    IF t = "keyword_search"
    THEN SourceItems(i, "government", NumGovernmentSites)
           \o SourceItems(i, "regulatory_body", NumRegulatoryBodies)
           \o SourceItems(i, "news", NumNewsSources)
    ELSE IF t = "industry_search" THEN SourceItems(i, "industry", 1)
    ELSE IF t = "jurisdiction_search" THEN SourceItems(i, "legal", 1)
    ELSE <<>>

\* _acquire_data_for_query
AcquireDataForQuery(i) == SearchByType(i, queries[i].type)

\* lines 29-31: the queries of a tier, by position in the argument
TierQueries(t) == {i \in 1..Len(queries) : queries[i].priority = t}

\* lines 33-46: high, then medium, then low, then return
NextTier(t) == CASE t = "high" -> "medium" [] t = "medium" -> "low" [] OTHER -> "returned"

\* GatherDone returning on the first finished task (asyncio.wait with
\* FIRST_COMPLETED in place of gather)
GatherDone_first(t) == \E i \in TierQueries(t) : fetch[i] \in {"ok", "raise"}

\* asyncio.gather(*tasks, return_exceptions=True) returns once every task of
\* the batch has returned or raised
GatherDone(t) == \A i \in TierQueries(t) : fetch[i] \in {"ok", "raise"}

\* lines 62-72: the results in task order, exceptions left out, lists flattened
RECURSIVE BatchData(_, _)
BatchData(t, i) ==
    IF i > Len(queries) THEN <<>>
    ELSE (IF i \in TierQueries(t) /\ fetch[i] = "ok" THEN AcquireDataForQuery(i) ELSE <<>>)
           \o BatchData(t, i + 1)

QuerySet == [priority : Priorities, type : InputTypes]

AcqIdle ==
    /\ queries = <<>>
    /\ acqTier = "returned"
    /\ fetch = <<>>
    /\ attempts = <<>>
    /\ all_data = <<>>

\* acquire_data(queries) has been called: all_data = [] and the tiers are split
AcqInit ==
    /\ OrchInit
    /\ GenIdle
    /\ FltIdle
    /\ AiIdle
    /\ PipeIdle
    /\ queries \in UNION {[1..n -> QuerySet] : n \in 0..MaxQueries}
    /\ acqTier = "high"
    /\ fetch = [i \in 1..Len(queries) |-> "pending"]
    /\ attempts = [i \in 1..Len(queries) |-> 0]
    /\ all_data = <<>>

\* lines 34, 39, 44: "if <tier>_priority_queries:" is false
SkipTier ==
    /\ acqTier \in {"high", "medium", "low"}
    /\ TierQueries(acqTier) = {}
    /\ acqTier' = NextTier(acqTier)
    /\ UNCHANGED <<queries, fetch, attempts, all_data>>
    /\ UNCHANGED outsideAcq

\* the task of query i, created by _process_queries_batch for the current
\* tier, starts running
FetchStart(i) ==
    /\ i \in TierQueries(acqTier)
    /\ fetch[i] = "pending"
    /\ fetch' = [fetch EXCEPT ![i] = "running"]
    /\ attempts' = [attempts EXCEPT ![i] = @ + 1]
    /\ UNCHANGED <<queries, acqTier, all_data>>
    /\ UNCHANGED outsideAcq

\* the task of query i returns its list or raises
FetchFinish(i) ==
    /\ i \in 1..Len(queries)
    /\ fetch[i] = "running"
    /\ \E out \in {"ok", "raise"} : fetch' = [fetch EXCEPT ![i] = out]
    /\ UNCHANGED <<queries, acqTier, attempts, all_data>>
    /\ UNCHANGED outsideAcq

\* TierCollect with gather's default return_exceptions=False: the first
\* exception of a batch propagates and the batch's data is lost
TierCollect_abort ==
    /\ acqTier \in {"high", "medium", "low"}
    /\ TierQueries(acqTier) # {}
    /\ GatherDone(acqTier)
    /\ all_data' = IF \E i \in TierQueries(acqTier) : fetch[i] = "raise"
                   THEN all_data
                   ELSE all_data \o BatchData(acqTier, 1)
    /\ acqTier' = NextTier(acqTier)
    /\ UNCHANGED <<queries, fetch, attempts>>
    /\ UNCHANGED outsideAcq

\* gather returns; lines 62-72 build the batch's data and acquire_data
\* extends all_data with it and goes on to the next tier
TierCollect ==
    /\ acqTier \in {"high", "medium", "low"}
    /\ TierQueries(acqTier) # {}
    /\ GatherDone(acqTier)
    /\ all_data' = all_data \o BatchData(acqTier, 1)
    /\ acqTier' = NextTier(acqTier)
    /\ UNCHANGED <<queries, fetch, attempts>>
    /\ UNCHANGED outsideAcq

AcqNext ==
    \/ SkipTier
    \/ \E i \in 1..MaxQueries : FetchStart(i)
    \/ \E i \in 1..MaxQueries : FetchFinish(i)
    \/ TierCollect

SpecAcq == AcqInit /\ [][AcqNext]_vars

\* ======================================================================
\* Part III: QueryGenerator.generate_queries
\* ======================================================================
\* longest keyword list drawn for the profile and for the request
MaxKeywords == 2

\* CompanyProfile.keywords and the request's keywords are drawn from these;
\* "AI" is in both, "GDPR compliance" is a term of the jurisdiction mapping,
\* "regulatory changes" a general query and "privacy" a token of a scope
ProfileKeywordPool == {"AI", "GDPR compliance", "privacy"}
RequestKeywordPool == {"AI", "regulatory changes"}
\* CompanyProfile.industry and .jurisdiction; "" stands for None or ""
Industries == {"", "Technology", "Energy and Financial", "Retail"}
Jurisdictions == {"", "EU", "Australia"}
AnalysisTypes == {"comprehensive", "targeted", "monitoring"}
\* Report.scope; "" stands for None or ""
Scopes == {"", "AI act", "Privacy data rules"}

\* the keys k of the mapping with "k in text.lower()", for the texts drawn
KeysIn(text) ==
    CASE text = "Technology" -> {"technology"}
      [] text = "Energy and Financial" -> {"energy", "financial"}
      [] text = "EU" -> {"eu"}
      [] text = "Australia" -> {"us"}
      [] OTHER -> {}

\* scope.lower().split(), for the scopes drawn
LowerSplit(scope) ==
    CASE scope = "AI act" -> <<"ai", "act">>
      [] scope = "Privacy data rules" -> <<"privacy", "data", "rules">>
      [] OTHER -> <<>>

\* len(term), for the tokens of the scopes and for the keywords drawn
StrLen(term) ==
    CASE term = "ai" -> 2 [] term = "act" -> 3 [] term = "data" -> 4
      [] term = "rules" -> 5 [] term = "privacy" -> 7
      [] term = "AI" -> 2 [] term = "GDPR compliance" -> 15
      [] term = "regulatory changes" -> 18 [] OTHER -> 0

industry_mapping ==
    [technology |-> <<"data protection regulations", "cybersecurity compliance",
                      "software licensing laws", "AI governance regulations">>,
     energy     |-> <<"environmental regulations", "safety standards",
                      "energy efficiency requirements", "renewable energy policies">>,
     healthcare |-> <<"medical device regulations", "patient data privacy",
                      "clinical trial requirements", "healthcare compliance">>,
     financial  |-> <<"financial services regulations", "anti-money laundering",
                      "consumer protection laws", "banking compliance">>]
\* industry_mapping.items() iterates in insertion order
industry_keys == <<"technology", "energy", "healthcare", "financial">>

jurisdiction_mapping ==
    [us |-> <<"federal regulations", "state compliance requirements",
              "SEC regulations", "FDA guidelines">>,
     eu |-> <<"EU directives", "GDPR compliance", "CE marking requirements",
              "European standards">>,
     uk |-> <<"UK regulations", "post-Brexit compliance", "British standards",
              "UKCA marking">>]
jurisdiction_keys == <<"us", "eu", "uk">>

general_queries ==
    <<"regulatory changes", "compliance updates", "new legislation",
      "policy updates", "regulatory guidance">>

\* one query dict per text of the list, in order
QueryDicts(texts, type, source, priority) ==
    [k \in 1..Len(texts) |->
        [query |-> texts[k], type |-> type, source |-> source, priority |-> priority]]

\* "for key, terms in mapping.items(): if key in lower: for term in terms"
RECURSIVE MappingQueries(_, _, _, _, _, _)
MappingQueries(mapping, keys, k, present, type, source) ==
    IF k > Len(keys) THEN <<>>
    ELSE (IF keys[k] \in present
          THEN QueryDicts(mapping[keys[k]], type, source, "high")
          ELSE <<>>)
         \o MappingQueries(mapping, keys, k + 1, present, type, source)

get_industry_queries(industry) ==
    MappingQueries(industry_mapping, industry_keys, 1, KeysIn(industry),
                   "industry_search", "industry_mapping")

get_jurisdiction_queries(jurisdiction) ==
    MappingQueries(jurisdiction_mapping, jurisdiction_keys, 1, KeysIn(jurisdiction),
                   "jurisdiction_search", "jurisdiction_mapping")

get_comprehensive_queries ==
    QueryDicts(general_queries, "comprehensive_search", "comprehensive_analysis", "medium")

get_targeted_queries(scope) ==
    IF scope = "" THEN <<>>
    ELSE QueryDicts(SelectSeq(LowerSplit(scope), LAMBDA term : StrLen(term) > 3),
                    "targeted_search", "scope_analysis", "high")

\* generate_queries: the five groups appended in order; an empty or missing
\* list, industry or jurisdiction adds nothing
generate_queries(a) ==
    QueryDicts(a.profile_keywords, "keyword_search", "company_profile", "high")
      \o QueryDicts(a.keywords, "keyword_search", "analysis_request", "medium")
      \o (IF a.industry # "" THEN get_industry_queries(a.industry) ELSE <<>>)
      \o (IF a.jurisdiction # "" THEN get_jurisdiction_queries(a.jurisdiction) ELSE <<>>)
      \o (IF a.analysis_type = "comprehensive" THEN get_comprehensive_queries
          ELSE IF a.analysis_type = "targeted" THEN get_targeted_queries(a.scope)
          ELSE <<>>)

SeqsUpTo(S, n) == UNION {[1..k -> S] : k \in 0..n}

GenArgsSet ==
    [profile_keywords : SeqsUpTo(ProfileKeywordPool, MaxKeywords),
     keywords         : SeqsUpTo(RequestKeywordPool, MaxKeywords),
     industry         : Industries,
     jurisdiction     : Jurisdictions,
     analysis_type    : AnalysisTypes,
     scope            : Scopes]

\* generate_queries has been called with some profile and request
GenInit ==
    /\ OrchInit
    /\ AcqIdle
    /\ FltIdle
    /\ AiIdle
    /\ PipeIdle
    /\ genArgs \in GenArgsSet
    /\ genPc = "called"
    /\ genQueries = <<>>

GenerateQueries ==
    /\ genPc = "called"
    /\ genQueries' = generate_queries(genArgs)
    /\ genPc' = "returned"
    /\ UNCHANGED genArgs
    /\ UNCHANGED outsideGen

GenNext == GenerateQueries

SpecGen == GenInit /\ [][GenNext]_vars

\* ======================================================================
\* Part IV: ContentFilter.filter_content
\* ======================================================================
\* Scores are fixed-point numbers in thousandths: 0.3 is 300, 1.0 is 1000.
\* A title is the set of its words, set(title.lower().split()); words and
\* URLs are numbered; URL 0 stands for a missing or empty "url".
\* What the content says about the profile is part of the item: whether a
\* keyword of the profile's industry or jurisdiction occurs in it and how
\* many of the profile's keywords do.

\* longest list drawn from ItemPool, and longest list of distinct items
MaxItems == 3
MaxLong == 11

Item(req, title, url, len, hint, st, ind, jur, kw) ==
    [required |-> req, title |-> title, url |-> url, content_length |-> len,
     relevance_score |-> hint, source_type |-> st, industry_hit |-> ind,
     jurisdiction_hit |-> jur, keyword_hits |-> kw, importance_score |-> -1]

ItemPool ==
    { Item(TRUE,  {1, 2, 3, 4, 5},    1, 60,   900, "government",      FALSE, FALSE, 0),
      Item(TRUE,  {1, 2, 3, 4, 5, 6}, 2, 1200, 900, "government",      FALSE, FALSE, 0),
      Item(TRUE,  {1, 2, 3, 4, 5, 7}, 3, 600,  850, "regulatory_body", FALSE, FALSE, 0),
      Item(TRUE,  {8},                1, 60,   700, "news",            TRUE,  TRUE,  2),
      Item(TRUE,  {},                 4, 60,   900, "legal",           FALSE, FALSE, 1),
      Item(TRUE,  {},                 5, 60,   800, "industry",        TRUE,  FALSE, 0),
      Item(TRUE,  {9},                6, 60,   900, "government",      FALSE, FALSE, 0),
      Item(TRUE,  {8, 9},             7, 600,  700, "news",            FALSE, FALSE, 0),
      Item(TRUE,  {10},               9, 60,   900, "government",      TRUE,  TRUE,  1),
      Item(TRUE,  {9},                8, 10,   900, "government",      FALSE, FALSE, 0),
      Item(TRUE,  {9},                8, 60,   200, "government",      FALSE, FALSE, 0),
      Item(TRUE,  {9},                8, 60,   900, "spam",            FALSE, FALSE, 0),
      Item(FALSE, {9},                8, 60,   900, "government",      FALSE, FALSE, 0) }

\* the k-th of a family of items that pass every filter and differ in URL and title
DistinctItem(k) == Item(TRUE, {100 + k}, 100 + k, 600, 900, "government", FALSE, FALSE, 0)

\* the sum as it is, without min(max(score, 0.0), 1.0)
Clamp_none(x) == x

\* min(max(score, 0.0), 1.0)
Clamp(x) == IF x < 0 THEN 0 ELSE IF x > 1000 THEN 1000 ELSE x

\* lines 48-67: the conditions under which an item is kept
QualityOk(item) ==
    /\ item.required
    /\ item.content_length >= 50
    /\ item.relevance_score >= 300
    /\ item.source_type \notin {"spam", "low_quality"}

source_scores(st) ==
    CASE st = "government" -> 300 [] st = "regulatory_body" -> 250 [] st = "legal" -> 200
      [] st = "industry" -> 150 [] st = "news" -> 100 [] OTHER -> 50

calculate_relevance_score(item) ==
    Clamp((item.relevance_score * 3) \div 10
          + (IF item.industry_hit THEN 200 ELSE 0)
          + (IF item.jurisdiction_hit THEN 200 ELSE 0)
          + 100 * item.keyword_hits
          + source_scores(item.source_type))

source_importance(st) ==
    CASE st = "government" -> 400 [] st = "regulatory_body" -> 350 [] st = "legal" -> 300
      [] st = "industry" -> 200 [] st = "news" -> 100 [] OTHER -> 50

calculate_importance_score(item, analysis_type) ==
    Clamp(source_importance(item.source_type)
          + (IF item.content_length > 1000 THEN 200
             ELSE IF item.content_length > 500 THEN 100 ELSE 0)
          + 100
          + (IF analysis_type = "comprehensive"
             THEN (IF item.content_length > 500 THEN 100 ELSE 0)
             ELSE IF analysis_type = "targeted"
             THEN (IF item.relevance_score > 800 THEN 200 ELSE 0)
             ELSE 0))

\* (relevance + importance) / 2, in units of 0.0005
sort_key(item) == item.relevance_score + item.importance_score

\* sorted(data, key=sort_key, reverse=True) is stable: p goes behind every
\* position whose key is at least its own
RECURSIVE InsertByKey(_, _, _)
InsertByKey(data, sorted, p) ==
    IF sorted = <<>> THEN <<p>>
    ELSE IF sort_key(data[Head(sorted)]) >= sort_key(data[p])
         THEN <<Head(sorted)>> \o InsertByKey(data, Tail(sorted), p)
         ELSE <<p>> \o sorted

\* sorted() without reverse=True: ascending keys
RECURSIVE Sorted_ascending(_, _, _)
Sorted_ascending(data, list, n) ==
    IF n = 0 THEN <<>>
    ELSE LET rest == Sorted_ascending(data, list, n - 1)
             RECURSIVE Ins(_)
             Ins(t) == IF t = <<>> THEN <<list[n]>>
                       ELSE IF sort_key(data[Head(t)]) <= sort_key(data[list[n]])
                            THEN <<Head(t)>> \o Ins(Tail(t))
                            ELSE <<list[n]>> \o t
         IN Ins(rest)

\* the first n positions of list, sorted
RECURSIVE Sorted(_, _, _)
Sorted(data, list, n) ==
    IF n = 0 THEN <<>>
    ELSE InsertByKey(data, Sorted(data, list, n - 1), list[n])

\* SeenUrl with the URL check left out
SeenUrl_never(url, seen_urls) == FALSE

\* line 252: "if url in seen_urls"
SeenUrl(url, seen_urls) == url \in seen_urls

\* lines 259-262: len(title_words & seen_words) / len(title_words | seen_words) > 0.8
Similar(title_words, seen_words) ==
    5 * Cardinality(title_words \cap seen_words) > 4 * Cardinality(title_words \cup seen_words)

\* _remove_duplicates from position k of list on; the division of line 261
\* raises ZeroDivisionError when the title and a seen title have no words
RECURSIVE remove_duplicates_from(_, _, _, _, _, _)
remove_duplicates_from(data, list, k, seen_urls, seen_titles, deduplicated) ==
    IF k > Len(list) THEN [raised |-> FALSE, out |-> deduplicated]
    ELSE LET item == data[list[k]] IN
         IF SeenUrl(item.url, seen_urls)
         THEN remove_duplicates_from(data, list, k + 1, seen_urls, seen_titles, deduplicated)
         ELSE IF \E t \in seen_titles : item.title \cup t = {}
         THEN [raised |-> TRUE, out |-> <<>>]
         ELSE IF \E t \in seen_titles : Similar(item.title, t)
         THEN remove_duplicates_from(data, list, k + 1, seen_urls, seen_titles, deduplicated)
         ELSE remove_duplicates_from(data, list, k + 1, seen_urls \cup {item.url},
                                     seen_titles \cup {item.title}, Append(deduplicated, list[k]))

remove_duplicates(data, list) == remove_duplicates_from(data, list, 1, {}, {}, <<>>)

Range(f) == {f[x] : x \in DOMAIN f}

\* filter_content has been called with a list of dicts and an analysis type
FltInit ==
    /\ OrchInit
    /\ AcqIdle
    /\ GenIdle
    /\ AiIdle
    /\ PipeIdle
    /\ raw_data \in SeqsUpTo(ItemPool, MaxItems)
                     \cup {[k \in 1..n |-> DistinctItem(k)] : n \in (MaxItems + 1)..MaxLong}
    /\ fltType \in AnalysisTypes
    /\ fltPc = "called"
    /\ fltList = [k \in 1..Len(raw_data) |-> k]

\* line 29
ApplyQualityFilters ==
    /\ fltPc = "called"
    /\ fltList' = SelectSeq(fltList, LAMBDA p : QualityOk(raw_data[p]))
    /\ fltPc' = "quality"
    /\ UNCHANGED <<raw_data, fltType>>
    /\ UNCHANGED outsideFlt

\* line 32: every item of the list gets its relevance_score overwritten
ApplyRelevanceFilters ==
    /\ fltPc = "quality"
    /\ raw_data' = [p \in DOMAIN raw_data |->
                       IF p \in Range(fltList)
                       THEN [raw_data[p] EXCEPT !.relevance_score = calculate_relevance_score(raw_data[p])]
                       ELSE raw_data[p]]
    /\ fltList' = SelectSeq(fltList, LAMBDA p : raw_data'[p].relevance_score >= 500)
    /\ fltPc' = "relevance"
    /\ UNCHANGED fltType
    /\ UNCHANGED outsideFlt

\* RankContent sorting by ascending key
RankContent_ascending ==
    /\ fltPc = "relevance"
    /\ raw_data' = [p \in DOMAIN raw_data |->
                       IF p \in Range(fltList)
                       THEN [raw_data[p] EXCEPT !.importance_score =
                                 calculate_importance_score(raw_data[p], fltType)]
                       ELSE raw_data[p]]
    /\ fltList' = Sorted_ascending(raw_data', fltList, Len(fltList))
    /\ fltPc' = "ranked"
    /\ UNCHANGED fltType
    /\ UNCHANGED outsideFlt

\* line 35: every item gets an importance_score, then the list is sorted
RankContent ==
    /\ fltPc = "relevance"
    /\ raw_data' = [p \in DOMAIN raw_data |->
                       IF p \in Range(fltList)
                       THEN [raw_data[p] EXCEPT !.importance_score =
                                 calculate_importance_score(raw_data[p], fltType)]
                       ELSE raw_data[p]]
    /\ fltList' = Sorted(raw_data', fltList, Len(fltList))
    /\ fltPc' = "ranked"
    /\ UNCHANGED fltType
    /\ UNCHANGED outsideFlt

\* lines 38-41: the deduplicated list is returned, or the exception of
\* _remove_duplicates leaves filter_content
RemoveDuplicates ==
    /\ fltPc = "ranked"
    /\ LET r == remove_duplicates(raw_data, fltList) IN
         /\ fltPc' = IF r.raised THEN "raised" ELSE "returned"
         /\ fltList' = r.out
    /\ UNCHANGED <<raw_data, fltType>>
    /\ UNCHANGED outsideFlt

FltNext ==
    \/ ApplyQualityFilters
    \/ ApplyRelevanceFilters
    \/ RankContent
    \/ RemoveDuplicates

SpecFlt == FltInit /\ [][FltNext]_vars

\* ======================================================================
\* Part V: AIAnalyst.analyze_changes
\* ======================================================================
batch_size == 5

\* item.get("source_type", ""); "" stands for a missing key
SourceTypes == <<"government", "regulatory_body", "legal", "news", "">>

AiItemPool == [url : {0, 1}, source_type : Range(SourceTypes)]

\* a list of n items with URLs 1..n whose source types cycle from offset o on
CycleItems(n, o) ==
    [k \in 1..n |-> [url |-> k, source_type |-> SourceTypes[((k + o) % Len(SourceTypes)) + 1]]]

\* filtered_data[i:i + batch_size], i counted from 0
Batch(i) == SubSeq(filtered_data, i + 1,
                   IF i + batch_size < Len(filtered_data) THEN i + batch_size
                   ELSE Len(filtered_data))

\* mock_confidence_score giving every source type the value 0.5
mock_confidence_flat(source_type) == 500

\* lines 197-209: the confidence of the mock analysis, in thousandths
mock_confidence_score(source_type) ==
    CASE source_type = "government" -> 900
      [] source_type = "regulatory_body" -> 800
      [] source_type = "legal" -> 700
      [] OTHER -> 600

\* lines 197-209: the risk level of the mock analysis
mock_risk_level(source_type) ==
    CASE source_type \in {"government", "regulatory_body"} -> "high"
      [] source_type = "legal" -> "medium"
      [] OTHER -> "low"

\* mock_analyze_batch giving one change for the whole batch, that of its first item
mock_analyze_batch_single(batch) ==
    IF batch = <<>> THEN <<>>
    ELSE <<[source_url |-> batch[1].url,
            risk_level |-> mock_risk_level(batch[1].source_type),
            confidence_score |-> mock_confidence_score(batch[1].source_type),
            action_items |-> 4]>>

\* _mock_analyze_batch: one change per item, in order; its list of action
\* items has four entries
mock_analyze_batch(batch) ==
    [k \in 1..Len(batch) |->
        [source_url |-> batch[k].url,
         risk_level |-> mock_risk_level(batch[k].source_type),
         confidence_score |-> mock_confidence_score(batch[k].source_type),
         action_items |-> 4]]

\* _parse_analysis_response: one change per item of the batch whatever the
\* response says; its list of action items has three entries
parse_analysis_response(batch) ==
    [k \in 1..Len(batch) |->
        [source_url |-> batch[k].url, risk_level |-> "medium",
         confidence_score |-> 700, action_items |-> 3]]

AiInit ==
    /\ OrchInit
    /\ AcqIdle
    /\ GenIdle
    /\ FltIdle
    /\ PipeIdle
    /\ aiModel \in BOOLEAN
    /\ filtered_data \in SeqsUpTo(AiItemPool, MaxItems)
          \cup {CycleItems(n, o) : n \in (MaxItems + 1)..MaxLong, o \in 1..Len(SourceTypes)}
    /\ aiPos = 0
    /\ aiCalls = 0
    /\ aiFailed = {}
    /\ aiChanges = <<>>
    /\ aiPc = "loop"

\* lines 65-67: without a model the batch gets the mock analysis
AnalyzeBatchMock ==
    /\ aiPc = "loop"
    /\ aiPos < Len(filtered_data)
    /\ ~aiModel
    /\ aiChanges' = aiChanges \o mock_analyze_batch(Batch(aiPos))
    /\ aiPos' = aiPos + batch_size
    /\ UNCHANGED <<aiModel, filtered_data, aiCalls, aiFailed, aiPc>>
    /\ UNCHANGED outsideAi

\* AnalyzeBatchAI without the try/except of lines 69-87: the exception of
\* the call leaves analyze_changes
AnalyzeBatchAI_propagate ==
    /\ aiPc = "loop"
    /\ aiPos < Len(filtered_data)
    /\ aiModel
    /\ aiCalls' = aiCalls + 1
    /\ \E out \in {"ok", "raise"} :
          IF out = "ok"
          THEN /\ aiChanges' = aiChanges \o parse_analysis_response(Batch(aiPos))
               /\ aiPos' = aiPos + batch_size
               /\ UNCHANGED <<aiFailed, aiPc>>
          ELSE /\ aiFailed' = aiFailed \cup {aiPos}
               /\ aiPc' = "raised"
               /\ UNCHANGED <<aiChanges, aiPos>>
    /\ UNCHANGED <<aiModel, filtered_data>>
    /\ UNCHANGED outsideAi

\* AnalyzeBatchAI calling the model a second time when the first call raised
AnalyzeBatchAI_retry ==
    /\ aiPc = "loop"
    /\ aiPos < Len(filtered_data)
    /\ aiModel
    /\ \E out \in {"ok", "raise"} :
          IF out = "ok"
          THEN /\ aiChanges' = aiChanges \o parse_analysis_response(Batch(aiPos))
               /\ aiCalls' = aiCalls + 1
               /\ UNCHANGED aiFailed
          ELSE /\ aiChanges' = aiChanges \o mock_analyze_batch(Batch(aiPos))
               /\ aiCalls' = aiCalls + 2
               /\ aiFailed' = aiFailed \cup {aiPos}
    /\ aiPos' = aiPos + batch_size
    /\ UNCHANGED <<aiModel, filtered_data, aiPc>>
    /\ UNCHANGED outsideAi

\* lines 69-87: one call of the model for the batch; its response is parsed,
\* or the call raises and the batch gets the mock analysis
AnalyzeBatchAI ==
    /\ aiPc = "loop"
    /\ aiPos < Len(filtered_data)
    /\ aiModel
    /\ aiCalls' = aiCalls + 1
    /\ \E out \in {"ok", "raise"} :
          IF out = "ok"
          THEN /\ aiChanges' = aiChanges \o parse_analysis_response(Batch(aiPos))
               /\ UNCHANGED aiFailed
          ELSE /\ aiChanges' = aiChanges \o mock_analyze_batch(Batch(aiPos))
               /\ aiFailed' = aiFailed \cup {aiPos}
    /\ aiPos' = aiPos + batch_size
    /\ UNCHANGED <<aiModel, filtered_data, aiPc>>
    /\ UNCHANGED outsideAi

\* lines 54-55: the loop is over
AiReturn ==
    /\ aiPc = "loop"
    /\ aiPos >= Len(filtered_data)
    /\ aiPc' = "returned"
    /\ UNCHANGED <<aiModel, filtered_data, aiPos, aiCalls, aiFailed, aiChanges>>
    /\ UNCHANGED outsideAi

AiNext ==
    \/ AnalyzeBatchMock
    \/ AnalyzeBatchAI
    \/ AiReturn

SpecAi == AiInit /\ [][AiNext]_vars

\* ======================================================================

Init == OrchInit /\ AcqIdle /\ GenIdle /\ FltIdle /\ AiIdle /\ PipeIdle

Next ==
    \/ \E r \in ReportIds : start_analysis(r)
    \/ \E r \in ReportIds : delete_report(r)
    \/ delete_company_profile
    \/ \E r \in ReportIds : RunInTurn(r)
    \/ \E r \in ReportIds : CommitStart(r)
    \/ \E r \in ReportIds : ProgressStage(r)
    \/ \E r \in ReportIds : RunStage(r)
    \/ \E r \in ReportIds : SaveAdd(r)
    \/ \E r \in ReportIds : SaveCommit(r)
    \/ \E r \in ReportIds : ProgressCompleted(r)
    \/ \E r \in ReportIds : CommitCompleted(r)
    \/ \E r \in ReportIds : EmitComplete(r)
    \/ \E r \in ReportIds : HandlerSetFailed(r)
    \/ \E r \in ReportIds : HandlerCommit(r)
    \/ \E r \in ReportIds : HandlerProgress(r)
    \/ \E r \in ReportIds : EmitError(r)
    \/ \E r \in ReportIds : Finally(r)
    \/ \E r \in ReportIds : Return(r)

Spec == Init /\ [][Next]_vars

\* ------------------------------------------------ two runs side by side
\* Each POST /reports/{id}/analyze adds run_analysis of a new
\* AnalysisOrchestrator to the background tasks of its request; the
\* coroutines of two requests share the event loop and interleave at every
\* await.  Each run opens its own session (orchestrator.py:41).
ConcIds == {r \in ReportIds : r <= 2}

\* The progress events of the two runs are delivered: a progress emit that
\* raises is swallowed inside _update_progress and changes nothing but the
\* log of its own run.
Delivered(r) == "emit_progress" \notin faults'[r]

ConcNext ==
    \/ \E r \in ConcIds : start_analysis(r)
    \/ \E r \in ConcIds : Lookup(r)
    \/ \E r \in ConcIds : CommitStart(r)
    \/ \E r \in ConcIds : ProgressStage(r) /\ Delivered(r)
    \/ \E r \in ConcIds : RunStage(r)
    \/ \E r \in ConcIds : SaveAdd(r)
    \/ \E r \in ConcIds : SaveCommit(r)
    \/ \E r \in ConcIds : ProgressCompleted(r) /\ Delivered(r)
    \/ \E r \in ConcIds : CommitCompleted(r)
    \/ \E r \in ConcIds : EmitComplete(r)
    \/ \E r \in ConcIds : HandlerSetFailed(r)
    \/ \E r \in ConcIds : HandlerCommit(r)
    \/ \E r \in ConcIds : HandlerProgress(r) /\ Delivered(r)
    \/ \E r \in ConcIds : EmitError(r)
    \/ \E r \in ConcIds : Finally(r)
    \/ \E r \in ConcIds : Return(r)

SpecConc == Init /\ [][ConcNext]_vars

\* ------------------------------------------- faults of the recovery path
\* line 104 raises: the exception leaves the handler, the progress event and
\* the error notification of lines 105-116 are skipped, the finally clause
\* runs; the failed status set in memory is rolled back with the transaction
HandlerCommitFails(r) ==
    /\ pc[r] = "except_commit"
    /\ SessionRollback(r)
    /\ raised' = [raised EXCEPT ![r] = "commit"]
    /\ faults' = [faults EXCEPT ![r] = @ \cup {"handler_commit"}]
    /\ pc' = [pc EXCEPT ![r] = "finally"]
    /\ UNCHANGED <<stage, regulatory_changes, e, log>>
    /\ UNCHANGED stageVars

\* The task running run_analysis is cancelled while a stage is awaited:
\* asyncio.CancelledError is raised at the await.  It derives from
\* BaseException, so "except Exception" (line 100) does not catch it and
\* only the finally clause runs.
Cancel(r) ==
    /\ pc[r] = "stage"
    /\ raised' = [raised EXCEPT ![r] = "CancelledError"]
    /\ faults' = [faults EXCEPT ![r] = @ \cup {"cancelled"}]
    /\ pc' = [pc EXCEPT ![r] = "finally"]
    /\ UNCHANGED dbVars
    /\ UNCHANGED <<report, stampMem, sessNew, stage, regulatory_changes, e, log>>
    /\ UNCHANGED stageVars

FaultNext ==
    \/ Next
    \/ \E r \in ReportIds : HandlerCommitFails(r)
    \/ \E r \in ReportIds : Cancel(r)

SpecFault == Init /\ [][FaultNext]_vars

\* ======================================================================
\* Part VI: the data path of one run of run_analysis
\* ======================================================================
\* The stages of Parts II-V run one after the other on each other's
\* results (orchestrator.py:58-88).  A fetch of the data source and a call
\* of the AI model may raise; the commits and notifications of the run are
\* those of Part I and do not fail here.  The profile has no industry and
\* no jurisdiction, and the run has at most MaxKeywords queries.

\* the words of title.lower().split() that come from the query text
QueryWords(q) ==
    CASE q = "AI" -> {51}
      [] q = "GDPR compliance" -> {52, 53}
      [] q = "privacy" -> {54}
      [] q = "regulatory changes" -> {23, 55}
      [] OTHER -> {}

\* the query text as part of a URL
QueryId(q) ==
    CASE q = "AI" -> 1 [] q = "GDPR compliance" -> 2 [] q = "privacy" -> 3
      [] q = "regulatory changes" -> 4 [] OTHER -> 5

\* len(body) for the regulatory bodies and len(source) for the news sources
regulatory_bodies_len == <<3, 3, 3, 3, 3, 3, 4, 3, 5, 3, 4, 4, 4>>
news_sources_len == <<7, 9, 15, 19>>

\* the mock dict that source src builds for query text q at its k-th site,
\* body or news source: the title's words, the URL, len(content), the
\* relevance_score and source_type it sets; hits is the number of profile
\* keywords that occur in the content
MockItem(src, k, q, hits) ==
    CASE src = "government" ->
           Item(TRUE, {21, 22} \cup QueryWords(q), 100 * QueryId(q) + k,
                38 + StrLen(q), 900, "government", FALSE, FALSE, hits)
      [] src = "regulatory_body" ->
           Item(TRUE, {30 + k, 22} \cup QueryWords(q), 100 * QueryId(q) + 10 + k,
                36 + regulatory_bodies_len[k] + StrLen(q), 850, "regulatory_body",
                FALSE, FALSE, hits)
      [] src = "news" ->
           Item(TRUE, {23, 24} \cup QueryWords(q), 100 * QueryId(q) + 30 + k,
                54 + news_sources_len[k] + StrLen(q), 700, "news", FALSE, FALSE, hits)
      [] src = "industry" ->
           Item(TRUE, {25, 26} \cup QueryWords(q), 100 * QueryId(q) + 40 + k,
                45 + StrLen(q), 800, "industry", FALSE, FALSE, hits)
      [] OTHER ->
           Item(TRUE, {27, 28} \cup QueryWords(q), 100 * QueryId(q) + 50 + k,
                45 + StrLen(q), 900, "legal", FALSE, FALSE, hits)

\* content_filter.py:116-119: one hit per keyword of the profile that occurs
\* in the content; of the keywords drawn, only the query text itself does
KeywordHits(q) ==
    Cardinality({j \in 1..Len(genArgs.profile_keywords) : genArgs.profile_keywords[j] = q})

PipeArgsSet ==
    {a \in GenArgsSet : /\ a.industry = ""
                        /\ a.jurisdiction = ""
                        /\ Len(generate_queries(a)) <= MaxKeywords}

\* run_analysis is about to call generate_queries (line 58)
PipeInit ==
    /\ OrchInit
    /\ AcqIdle
    /\ FltIdle
    /\ genArgs \in PipeArgsSet
    /\ genPc = "called"
    /\ genQueries = <<>>
    /\ aiModel \in BOOLEAN
    /\ filtered_data = <<>>
    /\ aiPos = 0
    /\ aiCalls = 0
    /\ aiFailed = {}
    /\ aiChanges = <<>>
    /\ aiPc = "idle"
    /\ pipeStage = "query_generation"
    /\ pipeStatus = "in_progress"
    /\ pipeRows = <<>>

\* lines 65-67: acquire_data is called with the generated queries
PipeAcquire ==
    /\ pipeStage = "query_generation"
    /\ genPc = "returned"
    /\ pipeStage' = "data_acquisition"
    /\ queries' = genQueries
    /\ acqTier' = "high"
    /\ fetch' = [i \in 1..Len(genQueries) |-> "pending"]
    /\ attempts' = [i \in 1..Len(genQueries) |-> 0]
    /\ all_data' = <<>>
    /\ UNCHANGED <<pipeStatus, pipeRows>>
    /\ UNCHANGED <<dbVars, runVars, genVars, fltVars, aiVars>>

\* lines 69-73: filter_content is called with the acquired dicts
PipeFilter ==
    /\ pipeStage = "data_acquisition"
    /\ acqTier = "returned"
    /\ pipeStage' = "content_filtering"
    /\ raw_data' = [k \in 1..Len(all_data) |->
                       LET q == queries[all_data[k][1]].query
                       IN MockItem(all_data[k][2], all_data[k][3], q, KeywordHits(q))]
    /\ fltType' = genArgs.analysis_type
    /\ fltPc' = "called"
    /\ fltList' = [k \in 1..Len(all_data) |-> k]
    /\ UNCHANGED <<pipeStatus, pipeRows>>
    /\ UNCHANGED <<dbVars, runVars, acqVars, genVars, aiVars>>

\* lines 75-79: analyze_changes is called with the filtered dicts
PipeAnalyze ==
    /\ pipeStage = "content_filtering"
    /\ fltPc = "returned"
    /\ pipeStage' = "ai_analysis"
    /\ filtered_data' = [k \in 1..Len(fltList) |->
                            [url |-> raw_data[fltList[k]].url,
                             source_type |-> raw_data[fltList[k]].source_type]]
    /\ aiPos' = 0
    /\ aiCalls' = 0
    /\ aiFailed' = {}
    /\ aiChanges' = <<>>
    /\ aiPc' = "loop"
    /\ UNCHANGED aiModel
    /\ UNCHANGED <<pipeStatus, pipeRows>>
    /\ UNCHANGED <<dbVars, runVars, acqVars, genVars, fltVars>>

\* PipeComplete treating a run without regulatory changes as a failure
PipeComplete_empty_fails ==
    /\ pipeStage = "ai_analysis"
    /\ aiPc = "returned"
    /\ pipeRows' = aiChanges
    /\ pipeStatus' = IF aiChanges = <<>> THEN "failed" ELSE "completed"
    /\ pipeStage' = "completed"
    /\ UNCHANGED <<dbVars, runVars, acqVars, genVars, fltVars, aiVars>>

\* lines 81-88: one row per regulatory change is saved and the report is
\* marked completed
PipeComplete ==
    /\ pipeStage = "ai_analysis"
    /\ aiPc = "returned"
    /\ pipeRows' = aiChanges
    /\ pipeStatus' = "completed"
    /\ pipeStage' = "completed"
    /\ UNCHANGED <<dbVars, runVars, acqVars, genVars, fltVars, aiVars>>

PipeNext ==
    \/ GenerateQueries
    \/ PipeAcquire
    \/ SkipTier
    \/ \E i \in 1..MaxQueries : FetchStart(i)
    \/ \E i \in 1..MaxQueries : FetchFinish(i)
    \/ TierCollect
    \/ PipeFilter
    \/ ApplyQualityFilters
    \/ ApplyRelevanceFilters
    \/ RankContent
    \/ RemoveDuplicates
    \/ PipeAnalyze
    \/ AnalyzeBatchMock
    \/ AnalyzeBatchAI
    \/ AiReturn
    \/ PipeComplete

SpecPipe == PipeInit /\ [][PipeNext]_vars

\* ======================================================================
\* Properties
\* ======================================================================
\* the events of one kind in the log of run r, in order
Events(r, kind) == SelectSeq(log[r], LAMBDA x : x[1] = kind)

\* the position of entry x in the log of run r (0 when it is not there)
Pos(r, x) == IF \E k \in 1..Len(log[r]) : log[r][k] = x
             THEN CHOOSE k \in 1..Len(log[r]) : log[r][k] = x
             ELSE 0

Ended(r) == pc[r] = "done"

NotificationFaults == {"emit_progress", "emit_complete", "emit_error"}

\* C1: Report.status moves only along pending -> in_progress -> {completed,
\* failed}; completed and failed are absorbing.  (Creation and deletion of the
\* row, and the abort of a run that never reached in_progress, are let through.)
StatusEdges ==
    { <<"none", "pending">>, <<"pending", "none">>, <<"pending", "failed">>,
      <<"pending", "in_progress">>, <<"in_progress", "completed">>, <<"in_progress", "failed">> }

C1_StatusMachine ==
    [][\A r \in ReportIds :
          reportStatus'[r] # reportStatus[r] => <<reportStatus[r], reportStatus'[r]>> \in StatusEdges]_vars

C3_AllOrNothing ==
    \A r \in ReportIds :
        Ended(r) => (changeRows[r] = {} \/ changeRows[r] = 1..regulatory_changes[r])

\* C4: a report with status "failed" has no RegulatoryChange rows.
C4_FailedHasNoRows ==
    \A r \in ReportIds : reportStatus[r] = "failed" => changeRows[r] = {}

\* C5: a run in which notifications raised and every stage and every
\* persistence step succeeded returns normally with status "completed".
C5_NotificationNeverFailsRun ==
    \A r \in ReportIds :
        (Ended(r) /\ faults[r] # {} /\ faults[r] \subseteq NotificationFaults)
            => (raised[r] = NoExc /\ reportStatus[r] = "completed")

\* C6: a run in which a stage raised e marks the report failed, emits exactly
\* one error notification carrying e, re-raises e, and called no stage twice.
C6_StageErrorReported ==
    \A r \in ReportIds :
        (Ended(r) /\ "stage" \in faults[r]) =>
            /\ reportStatus[r] = "failed"
            /\ Events(r, "error") = << <<"error", 0, e[r]>> >>
            /\ raised[r] = e[r]
            /\ \A i \in 1..NumStages : Len(SelectSeq(log[r], LAMBDA x : x[1] = "call" /\ x[2] = i)) <= 1

\* C7: a run whose Report or CompanyProfile is missing calls no stage, emits
\* no progress event, never has its report in_progress, and the caller sees
\* the not-found error.
C7_NotFoundAborts ==
    \A r \in ReportIds :
        (Ended(r) /\ "not_found" \in faults[r]) =>
            /\ Events(r, "call") = <<>>
            /\ Events(r, "progress") = <<>>
            /\ reportStatus[r] # "in_progress"
            /\ raised[r] = "not_found"

\* C8: a run in which nothing raised emitted exactly the five progress events
\* (10, query_generation), (30, data_acquisition), (60, content_filtering),
\* (80, ai_analysis), (100, completed) in this order, each stage's event before
\* the call of that stage, and the 100% event after the save.
ExpectedProgress ==
    << <<"progress", 10, "query_generation">>, <<"progress", 30, "data_acquisition">>,
       <<"progress", 60, "content_filtering">>, <<"progress", 80, "ai_analysis">>,
       <<"progress", 100, "completed">> >>

C8_ProgressSequence ==
    \A r \in ReportIds :
        (Ended(r) /\ faults[r] = {}) =>
            /\ Events(r, "progress") = ExpectedProgress
            /\ \A i \in 1..NumStages :
                  /\ Pos(r, ExpectedProgress[i]) > 0
                  /\ Pos(r, ExpectedProgress[i]) < Pos(r, <<"call", i, StageNames[i]>>)
                  /\ i > 1 => Pos(r, <<"call", i - 1, StageNames[i - 1]>>) < Pos(r, ExpectedProgress[i])
            /\ Pos(r, <<"saved", regulatory_changes[r], "">>) > 0
            /\ Pos(r, <<"saved", regulatory_changes[r], "">>) < Pos(r, ExpectedProgress[5])

C8_Witness ==
    \E r \in ReportIds : Ended(r) /\ faults[r] = {} /\ Len(log[r]) = 11 /\ regulatory_changes[r] = MaxChanges

\* C9: a run that returned normally left the report completed with
\* completed_at set and emitted one completion notification whose count is
\* the number of rows the run persisted; a completion notification is emitted
\* only when the completed status is committed.
C9_CompletionAfterCommit ==
    \A r \in ReportIds :
        /\ (Ended(r) /\ raised[r] = NoExc) =>
              /\ reportStatus[r] = "completed"
              /\ completedAt[r]
              /\ Events(r, "complete") = << <<"complete", Cardinality(changeRows[r]), "completed">> >>
        /\ Events(r, "complete") # <<>> => (reportStatus[r] = "completed" /\ completedAt[r])

C9_Witness ==
    \E r \in ReportIds :
        Ended(r) /\ raised[r] = NoExc /\ Cardinality(changeRows[r]) = MaxChanges /\ Events(r, "complete") # <<>>

\* C10: acquire_data takes the tiers in the order high, medium, low: no fetch
\* of a tier has started while a fetch of an earlier tier is unfinished, and in
\* the list it builds no item of a later tier precedes an item of an earlier
\* tier (the tier rank never decreases from one item to the next).
Rank(p) == CASE p = "high" -> 1 [] p = "medium" -> 2 [] p = "low" -> 3 [] OTHER -> 4

C10_TiersInOrder ==
    /\ \A i, j \in 1..Len(queries) :
          (Rank(queries[i].priority) < Rank(queries[j].priority) /\ Rank(queries[i].priority) < 4
             /\ fetch[j] # "pending")
              => fetch[i] \in {"ok", "raise"}
    /\ \A a \in 1..(Len(all_data) - 1) :
          Rank(queries[all_data[a][1]].priority) <= Rank(queries[all_data[a + 1][1]].priority)
    /\ \A a \in 1..Len(all_data) : Rank(queries[all_data[a][1]].priority) < 4

C10_Witness ==
    /\ acqTier = "returned"
    /\ \A p \in {"high", "medium", "low"} : TierQueries(p) # {}
    /\ \E i \in 1..Len(queries) : fetch[i] = "raise"
    /\ \E a, b \in 1..Len(all_data) :
          queries[all_data[a][1]].priority # queries[all_data[b][1]].priority

\* C11: a fetch that raises is left out and never aborts its batch.  When
\* acquire_data has returned, the items of all_data that belong to query i
\* are exactly the items its fetch returned if the fetch succeeded and none
\* if it raised, every item of all_data belongs to some query, and the
\* coroutine of every query of a tier was started exactly once; no coroutine
\* is ever started a second time.
C11_FailedFetchExcluded ==
    /\ \A i \in 1..Len(queries) : attempts[i] <= 1
    /\ acqTier = "returned" =>
          /\ \A a \in 1..Len(all_data) : all_data[a][1] \in 1..Len(queries)
          /\ \A i \in 1..Len(queries) :
                /\ SelectSeq(all_data, LAMBDA x : x[1] = i)
                     = (IF fetch[i] = "ok" THEN AcquireDataForQuery(i) ELSE <<>>)
                /\ queries[i].priority \in {"high", "medium", "low"} =>
                     attempts[i] = 1 /\ fetch[i] \in {"ok", "raise"}

\* acquire_data returned although a fetch of the first and a fetch of the
\* last tier raised, and the data of a query that succeeded is there
C11_Witness ==
    /\ acqTier = "returned"
    /\ \E i, j, k \in 1..Len(queries) :
          /\ queries[i].priority = "high" /\ fetch[i] = "raise"
          /\ queries[j].priority = "low" /\ fetch[j] = "raise"
          /\ fetch[k] = "ok"
    /\ all_data # <<>>

\* C13: when generate_queries has returned, its list holds a query for every
\* keyword of the profile and no two of its queries have the same text.
C13_DeduplicatedByText ==
    genPc = "returned" =>
        /\ \A k \in 1..Len(genArgs.profile_keywords) :
              \E a \in 1..Len(genQueries) : genQueries[a].query = genArgs.profile_keywords[k]
        /\ \A a, b \in 1..Len(genQueries) :
              a # b => genQueries[a].query # genQueries[b].query

\* C14: with no keywords in the profile, none in the request and analysis
\* type "monitoring", generate_queries returns a non-empty list that holds
\* a general query of the analysis type, whatever the industry and the
\* jurisdiction are.
C14_MonitoringFallback ==
    (/\ genPc = "returned"
     /\ genArgs.analysis_type = "monitoring"
     /\ genArgs.profile_keywords = <<>>
     /\ genArgs.keywords = <<>>)
      => /\ genQueries # <<>>
         /\ \E a \in 1..Len(genQueries) :
               genQueries[a].source \notin {"company_profile", "analysis_request",
                                            "industry_mapping", "jurisdiction_mapping"}

\* the cap on the length of the output by analysis type (spec 4.3, step 5)
Cap(analysis_type) ==
    CASE analysis_type = "comprehensive" -> 50 [] analysis_type = "targeted" -> 20
      [] OTHER -> 10

\* C15: the list filter_content returns is no longer than the cap of the
\* analysis type (50 comprehensive, 20 targeted, 10 monitoring).
C15_OutputWithinCap ==
    fltPc = "returned" => Len(fltList) <= Cap(fltType)

\* C16: the list filter_content returns is in descending order of the
\* combined score, the mean of relevance_score and importance_score.
C16_SortedByCombinedScore ==
    fltPc = "returned" =>
        \A a \in 1..(Len(fltList) - 1) :
            raw_data[fltList[a]].relevance_score + raw_data[fltList[a]].importance_score
              >= raw_data[fltList[a + 1]].relevance_score + raw_data[fltList[a + 1]].importance_score

\* the ranking reordered the input and the deduplication after it removed
\* an item from between items that stay
C16_Witness ==
    /\ fltPc = "returned"
    /\ Len(fltList) >= 2
    /\ fltList[1] > fltList[2]
    /\ sort_key(raw_data[fltList[1]]) > sort_key(raw_data[fltList[2]])
    /\ \E p \in 1..Len(raw_data) :
          /\ p \notin Range(fltList)
          /\ raw_data[p].importance_score >= 0
          /\ sort_key(raw_data[p]) < sort_key(raw_data[fltList[1]])
          /\ sort_key(raw_data[p]) > sort_key(raw_data[fltList[2]])

\* no two positions of list have the same URL, and no title has a Jaccard
\* similarity above 0.8 to the title of an earlier position
NoDuplicates(data, list) ==
    \A a, b \in 1..Len(list) :
        a < b =>
          /\ data[list[a]].url # data[list[b]].url
          /\ 10 * Cardinality(data[list[a]].title \cap data[list[b]].title)
               <= 8 * Cardinality(data[list[a]].title \cup data[list[b]].title)

\* C17: deduplication is idempotent.  For the list L of all the dicts of
\* the argument and for the ranked list filter_content hands to
\* _remove_duplicates: when _remove_duplicates returns on it, running it
\* again on its output returns that output unchanged, and the output has
\* no two items with the same URL and no item whose title is similar
\* (Jaccard above 0.8) to an earlier kept title.
C17_DedupIdempotent ==
    /\ LET first == remove_duplicates(raw_data, [k \in 1..Len(raw_data) |-> k]) IN
         ~first.raised =>
           /\ remove_duplicates(raw_data, first.out) = first
           /\ NoDuplicates(raw_data, first.out)
    /\ fltPc = "returned" =>
           /\ remove_duplicates(raw_data, fltList) = [raised |-> FALSE, out |-> fltList]
           /\ NoDuplicates(raw_data, fltList)

\* filter_content returned two items or more after _remove_duplicates
\* dropped a ranked item for its title alone: its URL is new and its title
\* differs from, but is similar to, the title of a kept item
C17_Witness ==
    /\ fltPc = "returned"
    /\ Len(fltList) >= 2
    /\ \E p \in 1..Len(raw_data) :
          /\ raw_data[p].importance_score >= 0
          /\ p \notin Range(fltList)
          /\ \A k \in Range(fltList) : raw_data[k].url # raw_data[p].url
          /\ \E k \in Range(fltList) :
                /\ raw_data[k].title # raw_data[p].title
                /\ Similar(raw_data[k].title, raw_data[p].title)

\* the batch of position k (counted from 1) used the fallback path
UsedFallback(k) == ~aiModel \/ ((k - 1) \div batch_size) * batch_size \in aiFailed

\* C18: when analyze_changes has returned, every item of a batch that took
\* the fallback path has its record at the item's own position: the record
\* is a fallback record, carries the item's URL as source_url and a
\* confidence between 0 and 1; the output has one record per input item.
C18_FallbackOnePerItem ==
    aiPc = "returned" =>
        /\ Len(aiChanges) = Len(filtered_data)
        /\ \A k \in 1..Len(filtered_data) :
              UsedFallback(k) =>
                /\ aiChanges[k].action_items = 4
                /\ aiChanges[k].source_url = filtered_data[k].url
                /\ aiChanges[k].confidence_score >= 0
                /\ aiChanges[k].confidence_score <= 1000

\* the second of three batches took the fallback path, the others did not
C18_Witness ==
    /\ aiPc = "returned"
    /\ Len(filtered_data) > 2 * batch_size
    /\ aiFailed = {batch_size}

\* C19: failures are isolated per batch.  Whatever batches have their call
\* raise, no exception leaves analyze_changes, and when it has returned
\* there is one record per input item, the items of the failing batches
\* have fallback records and the items of the other batches have the
\* records of the AI path.
C19_FailureIsolatedPerBatch ==
    /\ aiPc # "raised"
    /\ aiPc = "returned" =>
          /\ Len(aiChanges) = Len(filtered_data)
          /\ \A k \in 1..Len(filtered_data) :
                /\ aiChanges[k].source_url = filtered_data[k].url
                /\ aiChanges[k].action_items = (IF UsedFallback(k) THEN 4 ELSE 3)

\* the first and the last of three batches failed, the second did not
C19_Witness ==
    /\ aiPc = "returned"
    /\ Len(filtered_data) > 2 * batch_size
    /\ aiFailed = {0, 2 * batch_size}

AllFetchesRaised ==
    /\ pipeStage \notin {"idle", "query_generation"}
    /\ acqTier = "returned"
    /\ queries # <<>>
    /\ \A i \in 1..Len(queries) : fetch[i] = "raise"

Row(r) == <<reportStatus[r], completedAt[r], changeRows[r]>>

\* everything run r holds: its position, its session and its locals
RunOf(r) == <<pc[r], report[r], stampMem[r], sessNew[r], stage[r], regulatory_changes[r],
              e[r], raised[r], faults[r], log[r]>>

\* a fault of run r that sends its try body to the handler
TryFaults == {"stage", "save", "commit", "emit_complete"}

C22_PriorityOneToFive ==
    genPc = "returned" =>
        \A i \in 1..Len(genQueries) :
            genQueries[i].priority \notin STRING /\ genQueries[i].priority \in 1..5

\* C23: every item filter_content returns has its title, content and source
\* keys, a content of at least 50 characters, a source type other than spam
\* and low_quality, a recomputed relevance of at least 0.5, and relevance and
\* importance scores between 0 and 1.
C23_OutputItemsValid ==
    fltPc = "returned" =>
        \A k \in 1..Len(fltList) :
            LET item == raw_data[fltList[k]] IN
                /\ item.required
                /\ item.content_length >= 50
                /\ item.source_type \notin {"spam", "low_quality"}
                /\ item.relevance_score >= 500
                /\ item.relevance_score <= 1000
                /\ item.importance_score >= 0
                /\ item.importance_score <= 1000

\* a returned item whose relevance sum went over 1 and was cut to 1, next to
\* an input item dropped for its short content
C23_Witness ==
    /\ fltPc = "returned"
    /\ \E k \in 1..Len(fltList) : raw_data[fltList[k]].relevance_score = 1000
    /\ \E p \in DOMAIN raw_data : p \notin Range(fltList) /\ raw_data[p].content_length < 50

\* number of batches of at most batch_size items that n items make
NumBatches(n) == (n + batch_size - 1) \div batch_size

\* C24: with a model configured the items are taken in consecutive batches
\* of at most batch_size items in input order and the model is called once
\* per batch, whether the call returns or raises: after every batch the
\* number of calls is the number of batches taken, the records stand in the
\* order of the items, and at return the number of calls is ceil(n / batch_size).
C24_OneCallPerBatch ==
    aiModel =>
        /\ aiCalls * batch_size = aiPos
        /\ aiFailed \subseteq {b * batch_size : b \in 0..(aiCalls - 1)}
        /\ Len(aiChanges) = (IF aiPos < Len(filtered_data) THEN aiPos ELSE Len(filtered_data))
        /\ \A k \in 1..Len(aiChanges) : aiChanges[k].source_url = filtered_data[k].url
        /\ aiPc = "returned" => aiCalls = NumBatches(Len(filtered_data))

\* three batches, the last one short, the first two calls raised
C24_Witness ==
    /\ aiPc = "returned"
    /\ aiModel
    /\ Len(filtered_data) > 2 * batch_size
    /\ Len(filtered_data) % batch_size # 0
    /\ aiFailed = {0, batch_size}

\* C25: in every state the row of a report has completed_at set only when
\* its status is "completed".
C25_CompletedAtOnlyWhenCompleted ==
    \A r \in ReportIds : completedAt[r] => reportStatus[r] = "completed"

\* C26: once the progress event (100, completed) of a run has been emitted,
\* the run emits no error notification and no (0, failed) progress event
\* after it, and its report does not become "failed".
C26_NoFailureAfterCompletedProgress ==
    \A r \in ReportIds :
        \A k \in 1..Len(log[r]) :
            log[r][k] = <<"progress", 100, "completed">> =>
                /\ \A j \in (k + 1)..Len(log[r]) :
                      log[r][j][1] # "error" /\ log[r][j] # <<"progress", 0, "failed">>
                /\ reportStatus[r] # "failed"

\* C27: a run that moved its report to in_progress does not leave it there:
\* when run_analysis has exited, whatever raised on the way (a stage, the
\* commit of the handler, a notification, a cancellation while a stage was
\* awaited), the status of the report is not in_progress.
C27_NoRunLeavesInProgress ==
    \A r \in ReportIds : pc[r] \in {"done", "returned"} => reportStatus[r] # "in_progress"

\* C28: filter_content raises for no list of items that carry the title,
\* content and source keys, and returns the empty list for the empty list.
C28_FilterNeverRaises ==
    /\ (\A p \in DOMAIN raw_data : raw_data[p].required) => fltPc # "raised"
    /\ (raw_data = <<>> /\ fltPc = "returned") => fltList = <<>>

\* C29: no step of filter_content changes the relevance_score an item of the
\* input list came with, so a second call on the same list starts from the
\* same hints as the first.
C29_InputHintUnchanged ==
    [][\A p \in DOMAIN raw_data :
          p \in DOMAIN raw_data' => raw_data'[p].relevance_score = raw_data[p].relevance_score]_vars

\* C30: every query generate_queries returns is executed by acquire_data:
\* its priority is one of the tiers acquire_data processes and its type
\* makes _acquire_data_for_query search at least one source.
C30_EveryQueryExecuted ==
    genPc = "returned" =>
        \A i \in 1..Len(genQueries) :
            /\ genQueries[i].priority \in Priorities \ {"none"}
            /\ SearchByType(i, genQueries[i].type) # <<>>

====
